---- MODULE Spec2Model ----
(***************************************************************************)
(* A model of cool_animation.py: the colour formatter color(), the frame   *)
(* renderer draw_wave() and the driver main().                             *)
(*                                                                         *)
(* Python floats are modelled in fixed point: the integer n stands for the *)
(* real n / Scale.  Python strings are modelled as sequences of            *)
(* characters, each character a one-element token: printable ASCII as      *)
(* itself, "ESC" for \033, "NL" for \n, "FULL_BLOCK" for U+2588,           *)
(* "MEDIUM_SHADE" for U+2592, "WAVE" for U+1F30A, "SPARKLES" for U+2728.   *)
(***************************************************************************)
EXTENDS Integers, Sequences, FiniteSets, TLC

\* The fixed-point unit of the model's real arithmetic: 1.0 is Scale.
Scale == 10000

\* Bounds of the model.
MaxFrame == 12
MaxArg == 40

width == 60
height == 20

(***************************************************************************)
(* Real arithmetic.                                                        *)
(***************************************************************************)
abs(v) == IF v < 0 THEN -v ELSE v

\* a / b for a fixed-point a and a literal divisor b, rounding toward zero.
fdiv(a, b) == IF a >= 0 THEN a \div b ELSE -((-a) \div b)

\* The product of two fixed-point numbers.
fmul(a, b) == fdiv(a * b, Scale)

\* int(v): truncation toward zero.
int(v) == fdiv(v, Scale)

\* The sine series on [0, pi/2], by Horner's rule:
\* u (1 - u^2/6 (1 - u^2/20 (1 - u^2/42 (1 - u^2/72)))).
sin_series(u) ==
    LET u2 == fmul(u, u)
        t4 == Scale - fdiv(u2, 72)
        t3 == Scale - fmul(fdiv(u2, 42), t4)
        t2 == Scale - fmul(fdiv(u2, 20), t3)
        t1 == Scale - fmul(fdiv(u2, 6), t2)
    IN  fmul(u, t1)

\* math.sin: the argument is reduced modulo 2 pi to [-pi/2, pi/2]; the value
\* lies in [-1, 1].
sin(t) ==
    LET pi == (31416 * Scale) \div 10000
        a == t % (2 * pi)
        u == IF 2 * a <= pi THEN a
             ELSE IF 2 * a <= 3 * pi THEN pi - a
             ELSE a - 2 * pi
        s == IF u >= 0 THEN sin_series(u) ELSE -sin_series(-u)
    IN  IF s > Scale THEN Scale ELSE IF s < -Scale THEN -Scale ELSE s

\* math.cos
cos(t) == sin(t + (15708 * Scale) \div 10000)

(***************************************************************************)
(* Strings.                                                                *)
(***************************************************************************)
Digits == <<"0", "1", "2", "3", "4", "5", "6", "7", "8", "9">>

\* The decimal form of an integer, as an f-string formats it.
RECURSIVE str(_)
str(n) == IF n < 0 THEN <<"-">> \o str(-n)
          ELSE IF n < 10 THEN <<Digits[n + 1]>>
          ELSE str(n \div 10) \o <<Digits[(n % 10) + 1]>>

\* color() without the "m" that ends the colour prefix.
color_unterminated(r, g, b, text) ==
    <<"ESC", "[", "3", "8", ";", "2", ";">> \o str(r) \o <<";">> \o str(g)
        \o <<";">> \o str(b) \o text \o <<"ESC", "[", "0", "m">>

\* color(r, g, b, text)
color(r, g, b, text) ==
    <<"ESC", "[", "3", "8", ";", "2", ";">> \o str(r) \o <<";">> \o str(g)
        \o <<";">> \o str(b) \o <<"m">> \o text \o <<"ESC", "[", "0", "m">>

\* A join that ends every line with a newline instead of separating them.
RECURSIVE join_trailing(_)
join_trailing(output) ==
    IF Len(output) = 0 THEN <<>>
    ELSE output[1] \o <<"NL">> \o join_trailing(Tail(output))

\* "\n".join(output)
RECURSIVE join(_)
join(output) ==
    IF Len(output) = 0 THEN <<>>
    ELSE IF Len(output) = 1 THEN output[1]
    ELSE output[1] \o <<"NL">> \o join(Tail(output))

(***************************************************************************)
(* draw_wave                                                               *)
(***************************************************************************)
wave1(x, f) == sin(fdiv(x * Scale, 5) + fdiv(f * Scale, 10)) * 5
wave2(x, f) == sin(fdiv(x * Scale, 3) - fdiv(f * Scale, 15)) * 3
wave3(x, f) == cos(fdiv(x * Scale, 7) + fdiv(f * Scale, 8)) * 4

wave_y(x, f) ==
    fdiv(height * Scale, 2) + wave1(x, f) + wave2(x, f) + wave3(x, f)

\* The distance without its absolute value.
distance_signed(y, wy) == y * Scale - wy

distance(y, wy) == abs(y * Scale - wy)

hue(x, f) == (x * 6 + f * 2) % 360

\* The channel expression without the "+ 1" that lifts the sine to [0, 2].
channel_unshifted(h, offset, scale) ==
    int(sin(fdiv((h + offset) * 1745 * (Scale \div 100), 1000)) * scale)

\* int((math.sin((hue + offset) * 0.01745) + 1) * scale)
channel(h, offset, scale) ==
    int((sin(fdiv((h + offset) * 1745 * (Scale \div 100), 1000)) + Scale) * scale)

\* The loop body with inclusive thresholds (<= 0.5, <= 1.5).
cell_inclusive(d, x, f) ==
    IF 2 * d <= Scale
    THEN color(channel(hue(x, f), 0, 127), channel(hue(x, f), 120, 127),
               channel(hue(x, f), 240, 127), <<"FULL_BLOCK">>)
    ELSE IF 2 * d <= 3 * Scale
    THEN color(channel(hue(x, f), 0, 63), channel(hue(x, f), 120, 63),
               channel(hue(x, f), 240, 63), <<"MEDIUM_SHADE">>)
    ELSE <<" ">>

\* The body of the inner loop: what one cell appends to the line.
cell(d, x, f) ==
    IF 2 * d < Scale
    THEN color(channel(hue(x, f), 0, 127), channel(hue(x, f), 120, 127),
               channel(hue(x, f), 240, 127), <<"FULL_BLOCK">>)
    ELSE IF 2 * d < 3 * Scale
    THEN color(channel(hue(x, f), 0, 63), channel(hue(x, f), 120, 63),
               channel(hue(x, f), 240, 63), <<"MEDIUM_SHADE">>)
    ELSE <<" ">>

\* The line of row y after the columns 0 .. n-1.
RECURSIVE line(_, _, _)
line(y, n, f) ==
    IF n = 0 THEN <<>>
    ELSE line(y, n - 1, f) \o cell(distance(y, wave_y(n - 1, f)), n - 1, f)

draw_wave(f) ==
    join([i \in 1..height |-> line(i - 1, width, f)])

(***************************************************************************)
(* State.                                                                  *)
(*   pc       where main() stands: the line it executes next               *)
(*   frame    main()'s local frame: <<>> while unbound, <<n>> once bound   *)
(*   screen   what the terminal shows: the writes since the last erase     *)
(*   exit     how the process ended: "running", "normal" or "uncaught"     *)
(*   interrupts  the number of interrupt signals delivered so far          *)
(*   calls    history: the arguments of the calls of draw_wave, in order   *)
(*   events   history: the steps taken since the last frame print          *)
(*   probe    one application of draw_wave, of the loop body or of a       *)
(*            channel expression to inputs drawn from bounded sets         *)
(***************************************************************************)
VARIABLES pc, frame, screen, exit, interrupts, calls, events, probe

vars == <<pc, frame, screen, exit, interrupts, calls, events, probe>>

driver_vars == <<pc, frame, screen, exit, interrupts, calls, events>>

NoProbe == [kind |-> "none", done |-> FALSE, result |-> <<>>]

\* The distances the loop body is applied to: around both thresholds.
ProbeDistances ==
    {0, 1, Scale \div 2 - 1, Scale \div 2, Scale \div 2 + 1, Scale,
     (3 * Scale) \div 2 - 1, (3 * Scale) \div 2, (3 * Scale) \div 2 + 1,
     2 * Scale, 30 * Scale}

ProbeColumns == {0, 7, width - 1}

DrawProbes ==
    [kind : {"draw_wave"}, frame : 0..MaxArg, done : {FALSE}, result : {<<>>}]

CellProbes ==
    [kind : {"cell"}, distance : ProbeDistances, x : ProbeColumns,
     frame : {0, 1, MaxArg}, done : {FALSE}, result : {<<>>}]

ChannelProbes ==
    [kind : {"channel"}, hue : 0..359, offset : {0, 120, 240},
     scale : {127, 63}, done : {FALSE}, result : {<<>>}]

DriverInit ==
    /\ pc = "banner"
    /\ frame = <<>>
    /\ screen = <<>>
    /\ exit = "running"
    /\ interrupts = 0
    /\ calls = <<>>
    /\ events = <<>>

Init == DriverInit /\ probe = NoProbe

RenderInit == DriverInit /\ probe \in DrawProbes \cup CellProbes \cup ChannelProbes

ApplyDrawWave ==
    /\ probe.kind = "draw_wave"
    /\ ~probe.done
    /\ probe' = [probe EXCEPT !.done = TRUE, !.result = draw_wave(probe.frame)]
    /\ UNCHANGED driver_vars

ApplyCell ==
    /\ probe.kind = "cell"
    /\ ~probe.done
    /\ probe' = [probe EXCEPT !.done = TRUE,
                              !.result = cell(probe.distance, probe.x, probe.frame)]
    /\ UNCHANGED driver_vars

ApplyChannel ==
    /\ probe.kind = "channel"
    /\ ~probe.done
    /\ probe' = [probe EXCEPT !.done = TRUE,
                              !.result = channel(probe.hue, probe.offset, probe.scale)]
    /\ UNCHANGED driver_vars

RenderNext == ApplyDrawWave \/ ApplyCell \/ ApplyChannel

RenderSpec == RenderInit /\ [][RenderNext]_vars

(***************************************************************************)
(* main                                                                    *)
(***************************************************************************)
BannerText ==
    <<"P", "r", "e", "s", "s", " ", "C", "t", "r", "l", "+", "C", " ",
    "t", "o", " ", "e", "x", "i", "t", ".", ".", ".", "NL">>

HeaderText ==
    <<"WAVE", " ", "R", "A", "I", "N", "B", "O", "W", " ", "W", "A", "V",
    "E", " ", "A", "N", "I", "M", "A", "T", "I", "O", "N", " ", "WAVE",
    "NL">>

FooterText ==
    <<"NL", "F", "r", "a", "m", "e", ":", " ">>

FarewellText ==
    <<"NL", "SPARKLES", " ", "T", "h", "a", "n", "k", "s", " ", "f", "o",
    "r", " ", "w", "a", "t", "c", "h", "i", "n", "g", "!", " ",
    "SPARKLES", "NL">>

\* print(s) writes s and a newline.
print(s) == s \o <<"NL">>

\* The lines of main() inside the try block.
TryPcs == {"clear", "header", "draw", "footer", "incr", "sleep"}

\* Line 51.
Banner ==
    /\ pc = "banner"
    /\ screen' = Append(screen, print(BannerText))
    /\ pc' = "startup_sleep"
    /\ events' = Append(events, "banner")
    /\ UNCHANGED <<frame, exit, interrupts, calls, probe>>

\* Line 52.
StartupSleep ==
    /\ pc = "startup_sleep"
    /\ pc' = "bind"
    /\ events' = Append(events, "sleep")
    /\ UNCHANGED <<frame, screen, exit, interrupts, calls, probe>>

\* Line 54.
BindFrame ==
    /\ pc = "bind"
    /\ frame' = <<0>>
    /\ pc' = "clear"
    /\ events' = Append(events, "bind")
    /\ UNCHANGED <<screen, exit, interrupts, calls, probe>>

\* Line 57: clear_screen() erases the display and homes the cursor.
clear_screen ==
    /\ pc = "clear"
    /\ screen' = <<>>
    /\ pc' = "header"
    /\ events' = Append(events, "clear")
    /\ UNCHANGED <<frame, exit, interrupts, calls, probe>>

\* Line 58.
Header ==
    /\ pc = "header"
    /\ screen' = Append(screen, print(color(255, 255, 255, HeaderText)))
    /\ pc' = "draw"
    /\ events' = Append(events, "header")
    /\ UNCHANGED <<frame, exit, interrupts, calls, probe>>

\* draw_wave depends on its argument alone: the values main() can ask for,
\* computed once.
\* rendered[n + 1] is draw_wave(n).
rendered == [i \in 1..(MaxFrame + 2) |-> draw_wave(i - 1)]

\* Line 59.
Draw ==
    /\ pc = "draw"
    /\ screen' = Append(screen, print(rendered[frame[1] + 1]))
    /\ calls' = Append(calls, frame[1])
    /\ pc' = "footer"
    /\ events' = <<"draw">>
    /\ UNCHANGED <<frame, exit, interrupts, probe>>

\* Line 60.
Footer ==
    /\ pc = "footer"
    /\ screen' = Append(screen, print(color(100, 100, 100, FooterText \o str(frame[1]))))
    /\ pc' = "incr"
    /\ events' = Append(events, "footer")
    /\ UNCHANGED <<frame, exit, interrupts, calls, probe>>

\* Line 61, with a counter that skips a value.
Increment_by_two ==
    /\ pc = "incr"
    /\ frame[1] < MaxFrame
    /\ frame' = <<frame[1] + 2>>
    /\ pc' = "sleep"
    /\ events' = Append(events, "incr")
    /\ UNCHANGED <<screen, exit, interrupts, calls, probe>>

\* Line 61.  The counter is unbounded; the model stops it at MaxFrame.
Increment ==
    /\ pc = "incr"
    /\ frame[1] < MaxFrame
    /\ frame' = <<frame[1] + 1>>
    /\ pc' = "sleep"
    /\ events' = Append(events, "incr")
    /\ UNCHANGED <<screen, exit, interrupts, calls, probe>>

\* Line 62 followed by a return instead of the next iteration.
Sleep_once ==
    /\ pc = "sleep"
    /\ pc' = "exited"
    /\ exit' = "normal"
    /\ events' = Append(events, "sleep")
    /\ UNCHANGED <<frame, screen, interrupts, calls, probe>>

\* Line 62 with the screen clear hoisted out of the loop.
Sleep_to_header ==
    /\ pc = "sleep"
    /\ pc' = "header"
    /\ events' = Append(events, "sleep")
    /\ UNCHANGED <<frame, screen, exit, interrupts, calls, probe>>

\* Line 62, and back to the head of the while True loop.
Sleep ==
    /\ pc = "sleep"
    /\ pc' = "clear"
    /\ events' = Append(events, "sleep")
    /\ UNCHANGED <<frame, screen, exit, interrupts, calls, probe>>

\* A KeyboardInterrupt raised at a line of the try block: lines 63-64 follow.
InterruptInTry ==
    /\ pc \in TryPcs
    /\ interrupts' = interrupts + 1
    /\ pc' = "handler_clear"
    /\ UNCHANGED <<frame, screen, exit, calls, events, probe>>

\* A KeyboardInterrupt raised at a line outside the try block (lines 51-54, or
\* the handler's own lines 64-65): nothing catches it and the process ends
\* with a traceback.
InterruptOutsideTry ==
    /\ pc \in {"banner", "startup_sleep", "bind", "handler_clear", "handler_print"}
    /\ interrupts' = interrupts + 1
    /\ pc' = "exited"
    /\ exit' = "uncaught"
    /\ UNCHANGED <<frame, screen, calls, events, probe>>

\* Line 64.
HandlerClear ==
    /\ pc = "handler_clear"
    /\ screen' = <<>>
    /\ pc' = "handler_print"
    /\ events' = Append(events, "handler_clear")
    /\ UNCHANGED <<frame, exit, interrupts, calls, probe>>

\* Line 65; main() then returns and the process ends normally.
HandlerPrint ==
    /\ pc = "handler_print"
    /\ screen' = Append(screen, print(color(255, 100, 255, FarewellText)))
    /\ pc' = "exited"
    /\ exit' = "normal"
    /\ events' = Append(events, "farewell")
    /\ UNCHANGED <<frame, interrupts, calls, probe>>

\* The steps main() takes by itself.
main ==
    \/ Banner
    \/ StartupSleep
    \/ BindFrame
    \/ clear_screen
    \/ Header
    \/ Draw
    \/ Footer
    \/ Increment
    \/ Sleep
    \/ HandlerClear
    \/ HandlerPrint

Next == main \/ InterruptInTry \/ InterruptOutsideTry

Spec == Init /\ [][Next]_vars

\* Every print and sleep completes, and the interpreter keeps executing.
LiveSpec == Init /\ [][Next]_vars /\ WF_vars(main)

(***************************************************************************)
(* Reading a rendered string back.                                         *)
(***************************************************************************)
\* The lines of s, as s.split("\n") gives them.
Lines(s) ==
    LET nl == {i \in 1..Len(s) : s[i] = "NL"}
        starts == {1} \cup {i + 1 : i \in nl}
        end(b) == IF \E i \in nl : i >= b
                  THEN (CHOOSE i \in nl : i >= b /\ \A j \in nl : j >= b => i <= j) - 1
                  ELSE Len(s)
        nth(k) == CHOOSE b \in starts : Cardinality({c \in starts : c < b}) = k - 1
    IN  [k \in 1..Cardinality(starts) |-> SubSeq(s, nth(k), end(nth(k)))]

\* Inside an escape sequence every character up to the final letter is dropped.
EscBody == {"[", ";", "0", "1", "2", "3", "4", "5", "6", "7", "8", "9"}

\* Position i of s lies in an escape sequence: an ESC at or before i whose
\* sequence has not ended before i.
InEscape(s, i) ==
    \E j \in 1..i : s[j] = "ESC" /\ \A k \in (j + 1)..(i - 1) : s[k] \in EscBody

\* The positions of the visible characters of s.
Visible(s) == {i \in 1..Len(s) : ~InEscape(s, i)}

\* s with its escape sequences removed.
Strip(s) ==
    LET V == Visible(s)
        nth(k) == CHOOSE i \in V : Cardinality({j \in V : j < i}) = k - 1
    IN  [k \in 1..Cardinality(V) |-> s[nth(k)]]

\* The end of the cell that starts at position i of ln: a coloured cell runs
\* to the end of the next reset sequence, any other cell is one character.
CellEnd(ln, i) ==
    IF ln[i] # "ESC" THEN i
    ELSE IF \E j \in (i + 1)..Len(ln) : ln[j] = "ESC"
    THEN LET j == CHOOSE j \in (i + 1)..Len(ln) :
                      ln[j] = "ESC" /\ \A k \in (i + 1)..(j - 1) : ln[k] # "ESC"
         IN  IF j + 3 <= Len(ln) THEN j + 3 ELSE Len(ln)
    ELSE Len(ln)

\* The cells of a line, left to right.
RECURSIVE CellsFrom(_, _)
CellsFrom(ln, i) ==
    IF i > Len(ln) THEN <<>>
    ELSE <<SubSeq(ln, i, CellEnd(ln, i))>> \o CellsFrom(ln, CellEnd(ln, i) + 1)

\* The grid of a rendered frame: Grid(s)[y + 1][x + 1] is the cell (x, y).
Grid(s) == LET ls == Lines(s) IN [k \in 1..Len(ls) |-> CellsFrom(ls[k], 1)]

Rendered == probe.kind = "draw_wave" /\ probe.done

\* The cell the claims expect at distance d in column x of frame f.
SolidCell(x, f) ==
    LET h == (x * 6 + f * 2) % 360
    IN  color(channel(h, 0, 127), channel(h, 120, 127), channel(h, 240, 127),
              <<"FULL_BLOCK">>)

FadeCell(x, f) ==
    LET h == (x * 6 + f * 2) % 360
    IN  color(channel(h, 0, 63), channel(h, 120, 63), channel(h, 240, 63),
              <<"MEDIUM_SHADE">>)

IsSolid(c) == Len(c) > 1 /\ c[1] = "ESC" /\ \E i \in 1..Len(c) : c[i] = "FULL_BLOCK"
IsFade(c) == Len(c) > 1 /\ c[1] = "ESC" /\ \E i \in 1..Len(c) : c[i] = "MEDIUM_SHADE"
IsBlank(c) == c = <<" ">>

\* C1: the string draw_wave returns has exactly 20 lines: 19 newline
\* separators and no trailing newline.
C1_TwentyLines ==
    Rendered =>
        /\ Cardinality({i \in 1..Len(probe.result) : probe.result[i] = "NL"}) = 19
        /\ Len(Lines(probe.result)) = 20
        /\ probe.result[Len(probe.result)] # "NL"

\* A frame with solid, faded and blank cells has been rendered.
C1_Witness ==
    /\ Rendered
    /\ \E i \in 1..Len(probe.result) : probe.result[i] = "FULL_BLOCK"
    /\ \E i \in 1..Len(probe.result) : probe.result[i] = "MEDIUM_SHADE"
    /\ \E i \in 1..Len(probe.result) : probe.result[i] = " "

\* C2: every one of the 20 lines of draw_wave(f), with the colour escape
\* prefixes and reset suffixes removed, has exactly 60 visible characters,
\* each a solid block, a shade block or a space.
C2_SixtyVisible ==
    Rendered =>
        \A k \in 1..Len(Lines(probe.result)) :
            LET ln == Lines(probe.result)[k]
            IN  /\ Cardinality(Visible(ln)) = 60
                /\ \A i \in Visible(ln) : ln[i] \in {"FULL_BLOCK", "MEDIUM_SHADE", " "}

\* A rendered frame one of whose lines holds a solid cell, a fade cell and a
\* blank cell, so that prefixes and suffixes were stripped from it.
C2_Witness ==
    /\ Rendered
    /\ \E k \in 1..Len(Lines(probe.result)) :
           LET ln == Lines(probe.result)[k]
           IN  /\ Len(ln) > 60
               /\ \E i \in 1..Len(ln) : ln[i] = "FULL_BLOCK"
               /\ \E i \in 1..Len(ln) : ln[i] = "MEDIUM_SHADE"
               /\ \E i \in 1..Len(ln) : ln[i] = " "

\* What C3 expects of the cell appended at distance d in column x of frame f.
CellAsClaimed(c, d, x, f) ==
    /\ c = SolidCell(x, f) <=> 2 * d < Scale
    /\ c = FadeCell(x, f) <=> (Scale <= 2 * d /\ 2 * d < 3 * Scale)
    /\ c = <<" ">> <=> 3 * Scale <= 2 * d

\* C3: a cell is a solid block coloured with scale 127 iff distance < 0.5, a
\* shade block coloured with scale 63 iff 0.5 <= distance < 1.5, and a single
\* uncoloured space otherwise; a distance of exactly 0.5 gives the fade cell
\* and one of exactly 1.5 the blank cell.  Stated of the loop body applied to
\* a distance, and of every cell (x, y) of a rendered frame.
C3_Thresholds ==
    /\ (probe.kind = "cell" /\ probe.done) =>
           CellAsClaimed(probe.result, probe.distance, probe.x, probe.frame)
    /\ Rendered =>
           LET G == Grid(probe.result)
           IN  /\ Len(G) = height
               /\ \A y \in 0..(height - 1) :
                      /\ Len(G[y + 1]) = width
                      /\ \A x \in 0..(width - 1) :
                             CellAsClaimed(G[y + 1][x + 1],
                                           abs(y * Scale - wave_y(x, probe.frame)),
                                           x, probe.frame)

\* The loop body has been applied to a distance of exactly 0.5 and gave the
\* fade cell.
C3_Witness ==
    /\ probe.kind = "cell"
    /\ probe.done
    /\ 2 * probe.distance = Scale
    /\ IsFade(probe.result)

\* C6: for every hue in [0, 360) and offset 0, 120, 240 the channel value is
\* an integer in [0, 2 * scale]: at most 254 for scale 127, at most 126 for
\* scale 63, and so within [0, 255].
C6_ChannelRange ==
    (probe.kind = "channel" /\ probe.done) =>
        /\ probe.result \in 0..(2 * probe.scale)
        /\ probe.scale = 127 => probe.result \in 0..254
        /\ probe.scale = 63 => probe.result \in 0..126
        /\ probe.result \in 0..255

\* A channel of a solid cell near the top of its range has been computed.
C6_Witness ==
    /\ probe.kind = "channel"
    /\ probe.done
    /\ probe.scale = 127
    /\ probe.result >= 250

\* C10: in every column x of a rendered frame f at most one row is solid and
\* at most three rows are coloured; the rows above and below a solid row that
\* lie in the grid are fade cells; and every coloured cell of the column is
\* coloured from the hue (x * 6 + f * 2) mod 360, which lies in [0, 360).
C10_ColumnStructure ==
    Rendered =>
        LET G == Grid(probe.result)
            f == probe.frame
        IN  /\ Len(G) = height
            /\ \A y \in 1..height : Len(G[y]) = width
            /\ \A x \in 0..(width - 1) :
                   LET solid == {y \in 0..(height - 1) : IsSolid(G[y + 1][x + 1])}
                       coloured == {y \in 0..(height - 1) : ~IsBlank(G[y + 1][x + 1])}
                   IN  /\ Cardinality(solid) <= 1
                       /\ Cardinality(coloured) <= 3
                       /\ \A y \in solid :
                              \A n \in {y - 1, y + 1} \cap 0..(height - 1) :
                                  IsFade(G[n + 1][x + 1])
                       /\ \A y \in coloured :
                              G[y + 1][x + 1] \in {SolidCell(x, f), FadeCell(x, f)}
                       /\ hue(x, f) = (x * 6 + f * 2) % 360
                       /\ hue(x, f) \in 0..359

\* A rendered frame with a column whose solid cell has a fade cell above and
\* below it: three coloured rows.
C10_Witness ==
    /\ Rendered
    /\ LET G == Grid(probe.result)
       IN  \E x \in 1..width : \E y \in 2..(height - 1) :
               /\ IsSolid(G[y][x])
               /\ IsFade(G[y - 1][x])
               /\ IsFade(G[y + 1][x])

\* C4: an interrupt delivered at any point of main() is caught, the farewell
\* message is printed and the process terminates normally, never with an
\* uncaught exception.  Stated of the first interrupt: once the process has
\* ended after one interrupt, it ended normally with the farewell on screen.
C4_InterruptAlwaysCaught ==
    (pc = "exited" /\ interrupts = 1) =>
        /\ exit = "normal"
        /\ screen = <<print(color(255, 100, 255, FarewellText))>>

\* The number a digit string denotes.
RECURSIVE ParseNat(_)
ParseNat(ds) ==
    IF Len(ds) = 0 THEN 0
    ELSE 10 * ParseNat(SubSeq(ds, 1, Len(ds) - 1))
         + (CHOOSE d \in 0..9 : Digits[d + 1] = ds[Len(ds)])

\* The footer write w says "Frame: n": its visible text is a newline, the
\* label, the decimal digits of n and print's newline.
FooterShows(w, n) ==
    LET v == Strip(w)
        k == Len(FooterText)
    IN  /\ Len(v) >= k + 2
        /\ SubSeq(v, 1, k) = FooterText
        /\ v[Len(v)] = "NL"
        /\ \A i \in (k + 1)..(Len(v) - 1) : v[i] \in {Digits[d] : d \in 1..10}
        /\ ParseNat(SubSeq(v, k + 1, Len(v) - 1)) = n

\* In every state: the counter, once bound, is a natural number; the k-th
\* call of draw_wave received k - 1; and a footer on the screen shows the
\* value the last call received.
C8_State ==
    /\ frame # <<>> => frame[1] \in Nat
    /\ \A k \in 1..Len(calls) : calls[k] = k - 1
    /\ (pc \in TryPcs /\ Len(screen) = 3) => FooterShows(screen[3], calls[Len(calls)])
    /\ pc = "draw" => frame[1] = Len(calls)

\* In every step: the counter is bound to 0, stays, or grows by exactly 1,
\* and it grows exactly in the step between the footer and the sleep.
C8_Step ==
    /\ (frame = <<>> /\ frame' # <<>>) => frame' = <<0>>
    /\ (frame # <<>>) =>
           /\ frame' # <<>>
           /\ frame'[1] \in {frame[1], frame[1] + 1}
           /\ frame'[1] = frame[1] + 1 <=> (pc = "incr" /\ pc' = "sleep")

\* C8: the frame counter starts at 0, is never negative, never decreases and
\* grows by exactly 1 per loop iteration; the k-th call of draw_wave receives
\* frame = k - 1; and the footer of an iteration shows the value passed to
\* draw_wave in that iteration.
C8_FrameCounter == []C8_State /\ [][C8_Step]_vars

\* The loop has run eleven full iterations and printed the footer of the
\* next: a two-digit footer is on the screen.
C8_Witness ==
    /\ pc = "incr"
    /\ Len(calls) >= 11
    /\ Len(screen) = 3
    /\ interrupts = 0

\* The order of the steps from one frame print on, and up to the first.
LoopOrder == <<"draw", "footer", "incr", "sleep", "clear", "header">>
StartOrder == <<"banner", "sleep", "bind", "clear", "header">>

IsPrefix(a, b) == Len(a) <= Len(b) /\ a = SubSeq(b, 1, Len(a))

\* C9: in every loop iteration the steps occur in the order clear screen,
\* print header, print frame, print footer, increment, sleep: the steps since
\* the last frame print follow that order, so that each frame print is
\* preceded by a screen clear with no other frame print in between and a
\* sleep separates a frame print from the next screen clear.
C9_StepOrder ==
    pc \in TryPcs =>
        /\ IsPrefix(events, IF calls = <<>> THEN StartOrder ELSE LoopOrder)
        /\ pc = "draw" =>
               /\ screen = <<print(color(255, 255, 255, HeaderText))>>
               /\ \E i \in 1..Len(events) :
                      /\ events[i] = "clear"
                      /\ \A j \in i..Len(events) : events[j] # "draw"
        /\ (pc = "header" /\ calls # <<>>) =>
               \E i \in 1..Len(events) : \E j \in 1..Len(events) :
                   i < j /\ events[i] = "draw" /\ events[j] = "sleep"
                         /\ events[Len(events)] = "clear"

\* The second iteration is about to print its frame: a clear and a sleep lie
\* between it and the first frame print.
C9_Witness ==
    /\ pc = "draw"
    /\ Len(calls) = 1
    /\ events = <<"draw", "footer", "incr", "sleep", "clear", "header">>

\* Without an interrupt main() stays in its loop.
C7_StaysInLoop ==
    (pc \in TryPcs /\ pc' \notin TryPcs) => interrupts' > interrupts

\* C7: absent an interrupt the driver never leaves its loop on its own, and
\* for every n (up to the bound MaxFrame) the frame with counter n is
\* eventually rendered and printed.
C7_Progress ==
    /\ [][C7_StaysInLoop]_vars
    /\ \A n \in 0..MaxFrame :
           <>(interrupts > 0 \/ \E k \in 1..Len(calls) : calls[k] = n)

\* Every frame up to the bound has been printed and no interrupt came.
C7_Witness ==
    /\ interrupts = 0
    /\ \A n \in 0..MaxFrame : \E k \in 1..Len(calls) : calls[k] = n
    /\ Len(screen) = 3
====
